---- MODULE Spec2Model ----
(***************************************************************************)
(* cherryrgb: packet framing, checksum, payload encoders and the public    *)
(* operations of src/cherryrgb/src/lib.rs and src/cherryrgb/src/models.rs. *)
(* Bytes are naturals 0..255; a Rust slice or Vec<u8> is a sequence, so    *)
(* the byte at Rust index i is element i+1 here.                           *)
(***************************************************************************)
EXTENDS Naturals, Integers, Sequences, FiniteSets, TLC

\* ------------------------------------------------------------------ sizes

\* data: [u8; 60]
PAYLOAD_SIZE == 60
\* magic + checksum + unknown + command + data
PACKET_SIZE == 64
CHUNK_SIZE == 56
TOTAL_KEYS == 126
\* the u8 value range
U8Mod == 2 ^ 8

\* ----------------------------------------------------------------- bounds

\* how many bytes longer than PAYLOAD_SIZE a supplied payload may be, and how
\* many entries longer than TOTAL_KEYS a supplied key list may be
MaxExtra == 1
\* how many set_payload calls one Packet receives
MaxSetPayload == 2
\* how many set_led calls one CustomKeyLeds receives
MaxSetLed == 2
\* how many distinct fill patterns the supplied key lists are drawn from
NumPatterns == 2

\* ----------------------------------------------------------- enumerations

Commands ==
    {"TransactionStart", "TransactionEnd", "Unknown3", "Unknown5",
     "SetAnimation", "Unknown7", "SetCustomLED", "Unknown1B"}

CommandCode(c) ==
    CASE c = "TransactionStart" -> 1
      [] c = "TransactionEnd" -> 2
      [] c = "Unknown3" -> 3
      [] c = "Unknown5" -> 5
      [] c = "SetAnimation" -> 6
      [] c = "Unknown7" -> 7
      [] c = "SetCustomLED" -> 11
      [] c = "Unknown1B" -> 27

UnknownBytes == {"Zero", "One", "Two", "Three"}

UnknownByteCode(u) ==
    CASE u = "Zero" -> 0
      [] u = "One" -> 1
      [] u = "Two" -> 2
      [] u = "Three" -> 3

LightingModes ==
    {"Wave", "Spectrum", "Breathing", "Static", "Radar", "Vortex", "Fire",
     "Stars", "Rain", "Custom", "Rolling", "Curve", "WaveMid", "Scan",
     "Radiation", "Ripples", "SingleKey"}

LightingModeCode(m) ==
    CASE m = "Wave" -> 0
      [] m = "Spectrum" -> 1
      [] m = "Breathing" -> 2
      [] m = "Static" -> 3
      [] m = "Radar" -> 4
      [] m = "Vortex" -> 5
      [] m = "Fire" -> 6
      [] m = "Stars" -> 7
      [] m = "Rain" -> 11
      [] m = "Custom" -> 8
      [] m = "Rolling" -> 10
      [] m = "Curve" -> 12
      [] m = "WaveMid" -> 14
      [] m = "Scan" -> 15
      [] m = "Radiation" -> 18
      [] m = "Ripples" -> 19
      [] m = "SingleKey" -> 21

Speeds == {"VeryFast", "Fast", "Medium", "Slow", "VerySlow"}

SpeedCode(s) ==
    CASE s = "VeryFast" -> 0
      [] s = "Fast" -> 1
      [] s = "Medium" -> 2
      [] s = "Slow" -> 3
      [] s = "VerySlow" -> 4

Brightnesses == {"Off", "Low", "Medium", "High", "Full"}

BrightnessCode(b) ==
    CASE b = "Off" -> 0
      [] b = "Low" -> 1
      [] b = "Medium" -> 2
      [] b = "High" -> 3
      [] b = "Full" -> 4

\* --------------------------------------------------------------- OwnRGB8

OwnRGB8_new(r, g, b) == [r |-> r, g |-> g, b |-> b]

OwnRGB8_default == OwnRGB8_new(0, 0, 0)

\* the wire form of a color: R, G, B
OwnRGB8_to_vec(c) == <<c.r, c.g, c.b>>

\* -------------------------------------------------------------- checksum

RECURSIVE SumU32(_)
\* data.iter().map(|&i| i as u32).sum::<u32>(): every byte is widened to
\* u32 before it is added.  A u32 accumulator cannot wrap on fewer than
\* 2^24 bytes, and a payload has at most PAYLOAD_SIZE + MaxExtra of them, so
\* the sum is the exact one.
SumU32(data) ==
    IF data = <<>> THEN 0
    ELSE data[1] + SumU32(Tail(data))

\* calc_checksum with the command code left out of the sum
calc_checksum_without_command(command, data) ==
    LET sum == SumU32(data)
    IN sum % U8Mod

\* (sum & 0xFF) as u8
calc_checksum(command, data) ==
    LET sum == SumU32(data) + CommandCode(command)
    IN sum % U8Mod

\* ----------------------------------------------------------------- Packet

Packet_new(unknown, command) ==
    [checksum |-> 0, unknown |-> unknown, command |-> command,
     data |-> [i \in 1..PAYLOAD_SIZE |-> 0]]

\* set_payload with the length check off by one and the copy clipped
set_payload_off_by_one(packet, new_data) ==
    IF Len(new_data) > PAYLOAD_SIZE + 1
    THEN [ok |-> FALSE, packet |-> packet]
    ELSE [ok |-> TRUE,
          packet |-> [packet EXCEPT !.data =
              [i \in 1..PAYLOAD_SIZE |->
                  IF i <= Len(new_data) THEN new_data[i] ELSE packet.data[i]]]]

\* Result<()> together with the packet as the call leaves it
set_payload(packet, new_data) ==
    IF Len(new_data) > PAYLOAD_SIZE
    THEN [ok |-> FALSE, packet |-> packet]
    ELSE [ok |-> TRUE,
          packet |-> [packet EXCEPT !.data =
              [i \in 1..PAYLOAD_SIZE |->
                  IF i <= Len(new_data) THEN new_data[i] ELSE packet.data[i]]]]

update_checksum(packet) ==
    [packet EXCEPT !.checksum = calc_checksum(packet.command, packet.data)]

\* TRUE for Ok(()), FALSE for the invalid-checksum error
verify_checksum(packet) ==
    LET calculated == calc_checksum(packet.command, packet.data)
    IN calculated = packet.checksum

\* binrw write of Packet: magic 4u8, then the fields in declaration order
Packet_to_vec(packet) ==
    <<4, packet.checksum, UnknownByteCode(packet.unknown),
      CommandCode(packet.command)>> \o packet.data

\* Packet read with the magic byte not compared
Packet_read_magic_unchecked(bytes) ==
    IF Len(bytes) < PACKET_SIZE THEN [ok |-> FALSE]
    ELSE IF ~ \E u \in UnknownBytes : UnknownByteCode(u) = bytes[3]
    THEN [ok |-> FALSE]
    ELSE IF ~ \E c \in Commands : CommandCode(c) = bytes[4]
    THEN [ok |-> FALSE]
    ELSE [ok |-> TRUE,
          packet |->
              [checksum |-> bytes[2],
               unknown |-> CHOOSE u \in UnknownBytes : UnknownByteCode(u) = bytes[3],
               command |-> CHOOSE c \in Commands : CommandCode(c) = bytes[4],
               data |-> [i \in 1..PAYLOAD_SIZE |-> bytes[4 + i]]]]

\* binrw read of Packet: the magic and both repr(u8) enums reject other bytes
Packet_read(bytes) ==
    IF Len(bytes) < PACKET_SIZE THEN [ok |-> FALSE]
    ELSE IF bytes[1] # 4 THEN [ok |-> FALSE]
    ELSE IF ~ \E u \in UnknownBytes : UnknownByteCode(u) = bytes[3]
    THEN [ok |-> FALSE]
    ELSE IF ~ \E c \in Commands : CommandCode(c) = bytes[4]
    THEN [ok |-> FALSE]
    ELSE [ok |-> TRUE,
          packet |->
              [checksum |-> bytes[2],
               unknown |-> CHOOSE u \in UnknownBytes : UnknownByteCode(u) = bytes[3],
               command |-> CHOOSE c \in Commands : CommandCode(c) = bytes[4],
               data |-> [i \in 1..PAYLOAD_SIZE |-> bytes[4 + i]]]]

\* prepare_packet without the update_checksum call
prepare_packet_checksum_not_set(unknown, command, payload) ==
    LET packet == Packet_new(unknown, command)
        r == set_payload(packet, payload)
    IN IF ~ r.ok THEN [ok |-> FALSE]
       ELSE [ok |-> TRUE, bytes |-> Packet_to_vec(r.packet)]

prepare_packet(unknown, command, payload) ==
    LET packet == Packet_new(unknown, command)
        r == set_payload(packet, payload)
    IN IF ~ r.ok THEN [ok |-> FALSE]
       ELSE [ok |-> TRUE, bytes |-> Packet_to_vec(update_checksum(r.packet))]

\* ---------------------------------------------------------- send_payload

\* what the transport does with one send_payload call: both transfers
\* succeed, the control write fails, or the interrupt read fails
TransportOutcomes == {"ok", "write_fails", "read_fails"}

\* send_payload with the control write's error dropped instead of returned
send_payload_write_error_dropped(transport, unknown, command, payload) ==
    LET p == prepare_packet(unknown, command, payload)
    IN IF ~ p.ok THEN [ok |-> FALSE, io |-> <<>>]
       ELSE IF transport = "write_fails"
       THEN [ok |-> TRUE,
             io |-> <<[kind |-> "write", data |-> p.bytes, ok |-> FALSE]>>]
       ELSE IF transport = "read_fails"
       THEN [ok |-> FALSE,
             io |-> <<[kind |-> "write", data |-> p.bytes, ok |-> TRUE],
                      [kind |-> "read", data |-> <<>>, ok |-> FALSE]>>]
       ELSE [ok |-> TRUE,
             io |-> <<[kind |-> "write", data |-> p.bytes, ok |-> TRUE],
                      [kind |-> "read", data |-> <<>>, ok |-> TRUE]>>]

\* the outcome of one send_payload call and the transfers it attempted
send_payload(transport, unknown, command, payload) ==
    LET p == prepare_packet(unknown, command, payload)
    IN IF ~ p.ok THEN [ok |-> FALSE, io |-> <<>>]
       ELSE IF transport = "write_fails"
       THEN [ok |-> FALSE,
             io |-> <<[kind |-> "write", data |-> p.bytes, ok |-> FALSE]>>]
       ELSE IF transport = "read_fails"
       THEN [ok |-> FALSE,
             io |-> <<[kind |-> "write", data |-> p.bytes, ok |-> TRUE],
                      [kind |-> "read", data |-> <<>>, ok |-> FALSE]>>]
       ELSE [ok |-> TRUE,
             io |-> <<[kind |-> "write", data |-> p.bytes, ok |-> TRUE],
                      [kind |-> "read", data |-> <<>>, ok |-> TRUE]>>]

\* --------------------------------------------------- LedAnimationPayload

LedAnimationPayload_new(mode, brightness, speed, color, rainbow) ==
    [unknown |-> <<9, 0, 0, 85, 0>>,
     mode |-> mode,
     brightness |-> brightness,
     speed |-> speed,
     pad |-> 0,
     rainbow |-> IF rainbow THEN 1 ELSE 0,
     color |-> color]

\* LedAnimationPayload written with speed before brightness
LedAnimationPayload_to_vec_speed_first(p) ==
    p.unknown \o
    <<LightingModeCode(p.mode), SpeedCode(p.speed),
      BrightnessCode(p.brightness), p.pad, p.rainbow>> \o
    OwnRGB8_to_vec(p.color)

\* binrw write of LedAnimationPayload: the fields in declaration order
LedAnimationPayload_to_vec(p) ==
    p.unknown \o
    <<LightingModeCode(p.mode), BrightnessCode(p.brightness),
      SpeedCode(p.speed), p.pad, p.rainbow>> \o
    OwnRGB8_to_vec(p.color)

\* ---------------------------------------------------------- CustomKeyLeds

CustomKeyLeds_new == [i \in 1..TOTAL_KEYS |-> OwnRGB8_default]

\* Result<Self>
from_leds(key_leds) ==
    IF Len(key_leds) > TOTAL_KEYS THEN [ok |-> FALSE]
    ELSE [ok |-> TRUE, key_leds |-> key_leds]

\* Result<()> together with the state as the call leaves it
set_led(key_leds, key_index, key) ==
    IF key_index >= Len(key_leds) THEN [ok |-> FALSE, key_leds |-> key_leds]
    ELSE [ok |-> TRUE,
          key_leds |-> [key_leds EXCEPT ![key_index + 1] = key]]

\* BinWrite for CustomKeyLeds: every key in order, each as R, G, B
CustomKeyLeds_to_vec(key_leds) ==
    [j \in 1..(3 * Len(key_leds)) |->
        OwnRGB8_to_vec(key_leds[((j - 1) \div 3) + 1])[((j - 1) % 3) + 1]]

Min(a, b) == IF a < b THEN a ELSE b

\* slice::chunks: consecutive pieces of chunk_size, the last one shorter
Chunks(s, chunk_size) ==
    [k \in 1..((Len(s) + chunk_size - 1) \div chunk_size) |->
        SubSeq(s, (k - 1) * chunk_size + 1, Min(k * chunk_size, Len(s)))]

\* the chunk's payload with the secondary-keys flag never set
LedCustomPayload_at_flag_never_set(index, chunk) ==
    LET offset == index * CHUNK_SIZE
    IN [data_offset |-> offset % U8Mod,
        secondary_keys |-> 0,
        padding |-> 0,
        key_leds_data |-> chunk]

\* the LedCustomPayload built for the chunk at (0-based) index
LedCustomPayload_at(index, chunk) ==
    LET offset == index * CHUNK_SIZE
        wrapped == offset > 255
        data_offset == IF wrapped THEN offset % 256 ELSE offset
    IN [data_offset |-> data_offset % U8Mod,
        secondary_keys |-> IF wrapped THEN 1 ELSE 0,
        padding |-> 0,
        key_leds_data |-> chunk]

get_payloads(key_leds) ==
    LET key_data == CustomKeyLeds_to_vec(key_leds)
        chunks == Chunks(key_data, CHUNK_SIZE)
    IN [k \in 1..Len(chunks) |-> LedCustomPayload_at(k - 1, chunks[k])]

\* binrw write of LedCustomPayload: data_len is calculated on write
LedCustomPayload_to_vec(p) ==
    <<Len(p.key_leds_data) % U8Mod, p.data_offset, p.secondary_keys, p.padding>>
    \o p.key_leds_data

\* ------------------------------------------------------ public operations

\* one send_payload call of an operation: its discriminant, command, payload
Call(unknown, command, payload) ==
    [unknown |-> unknown, command |-> command, payload |-> payload]

\* Each operation is straight-line code: a fixed sequence of send_payload
\* calls, every one followed by `?`.  The operators below give that sequence.

start_transaction == <<Call("Zero", "TransactionStart", <<>>)>>

end_transaction == <<Call("Zero", "TransactionEnd", <<>>)>>

fetch_device_state ==
    start_transaction \o
    <<Call("Zero", "Unknown3", <<34>>),
      Call("Zero", "Unknown7", <<56, 0>>),
      Call("Zero", "Unknown7", <<56, 56>>),
      Call("Zero", "Unknown7", <<56, 112>>),
      Call("Zero", "Unknown7", <<56, 168>>),
      Call("One", "Unknown7", <<56, 224>>),
      Call("Zero", "Unknown7", <<56, 24, 1>>),
      Call("Zero", "Unknown7", <<42, 80, 1>>),
      Call("Zero", "Unknown1B", <<56, 0>>),
      Call("Zero", "Unknown1B", <<56, 56>>),
      Call("Zero", "Unknown1B", <<14, 112>>)>> \o
    end_transaction

\* set_led_animation with the trailer sent before the primary packet
set_led_animation_trailer_first(mode, brightness, speed, color, rainbow) ==
    LET payload == LedAnimationPayload_to_vec(
                       LedAnimationPayload_new(mode, brightness, speed, color, rainbow))
    IN start_transaction \o
       <<Call("Zero", "SetAnimation", <<1, 24, 0, 85, 1>>)>> \o
       <<Call("One", "SetAnimation", payload)>> \o
       end_transaction

set_led_animation(mode, brightness, speed, color, rainbow) ==
    LET payload == LedAnimationPayload_to_vec(
                       LedAnimationPayload_new(mode, brightness, speed, color, rainbow))
    IN start_transaction \o
       <<Call("One", "SetAnimation", payload)>> \o
       <<Call("Zero", "SetAnimation", <<1, 24, 0, 85, 1>>)>> \o
       end_transaction

set_custom_colors(key_leds) ==
    LET payloads == get_payloads(key_leds)
    IN set_led_animation("Custom", "Full", "Slow", OwnRGB8_default, FALSE) \o
       [k \in 1..Len(payloads) |->
           Call("Zero", "SetCustomLED", LedCustomPayload_to_vec(payloads[k]))]

reset_custom_colors ==
    set_custom_colors(CustomKeyLeds_new) \o
    <<Call("Zero", "Unknown5", <<1>>),
      Call("Zero", "Unknown5", <<25>>)>>

\* the send_payload calls of operation o with arguments a
Calls(o, a) ==
    CASE o = "set_led_animation" -> set_led_animation(a[1], a[2], a[3], a[4], a[5])
      [] o = "set_custom_colors" -> set_custom_colors(a[1])
      [] o = "reset_custom_colors" -> reset_custom_colors
      [] o = "fetch_device_state" -> fetch_device_state
      [] OTHER -> <<>>

\* ---------------------------------------------------------------- inputs

Colors == {OwnRGB8_default, OwnRGB8_new(244, 255, 100), OwnRGB8_new(255, 255, 255)}

\* a caller-supplied list of n colors, all different from the default
KeyList(n, k) ==
    [i \in 1..n |->
        OwnRGB8_new((k * i) % U8Mod, ((i + k) % 255) + 1, (7 * i + k) % U8Mod)]

KeyLists ==
    {KeyList(n, k) : n \in 0..(TOTAL_KEYS + MaxExtra), k \in 1..NumPatterns}

\* ----------------------------------------------------------------- state

VARIABLES
    op,       \* the public operation in progress, "none" before the first
    args,     \* its arguments
    calls,    \* the send_payload calls its code makes, in order
    pc,       \* index of its next send_payload call
    io,       \* the transfers attempted on the device handle in this run
    result,   \* "running", "ok" or "err": what the operation returned
    pkt,      \* a Packet under construction, or NoPacket
    nset,     \* set_payload calls made on pkt
    pres,     \* the last Packet call and its result
    ser,      \* a serialized packet, the byte changed in it, what it was read as
    sent,     \* the last direct send_payload call and its result
    chk,      \* the last calc_checksum call and its result
    leds,     \* a CustomKeyLeds state (its key_leds), or NoLeds
    nled,     \* set_led calls made on leds
    lres,     \* the last CustomKeyLeds call and its result
    chunks    \* the last get_payloads call: the state consumed and the payloads

vars ==
    <<op, args, calls, pc, io, result, pkt, nset, pres, ser, sent, chk,
      leds, nled, lres, chunks>>

opVars == <<op, args, calls, pc, io, result>>
pktVars == <<pkt, nset, pres, ser, sent, chk>>
ledVars == <<leds, nled, lres, chunks>>

NoPacket == [none |-> TRUE]
NoLeds == [none |-> TRUE]
NoCall == [call |-> "none"]

Init ==
    /\ op = "none"
    /\ args = <<>>
    /\ calls = <<>>
    /\ pc = 1
    /\ io = <<>>
    /\ result = "ok"
    /\ pkt = NoPacket
    /\ nset = 0
    /\ pres = NoCall
    /\ ser = NoCall
    /\ sent = NoCall
    /\ chk = NoCall
    /\ leds = NoLeds
    /\ nled = 0
    /\ lres = NoCall
    /\ chunks = NoCall

\* ------------------------------------------- actions: public operations

\* a public operation is entered on an idle device handle (the handle is
\* exclusively owned by one operation at a time); nothing has been sent yet
Enter(o, a) ==
    /\ op = "none"
    /\ op' = o
    /\ args' = a
    /\ calls' = Calls(o, a)
    /\ pc' = 1
    /\ io' = <<>>
    /\ result' = "running"
    /\ UNCHANGED <<pktVars, ledVars>>

Call_set_led_animation ==
    \E mode \in LightingModes, brightness \in Brightnesses, speed \in Speeds,
       color \in Colors, rainbow \in BOOLEAN :
        Enter("set_led_animation", <<mode, brightness, speed, color, rainbow>>)

Call_set_custom_colors ==
    \E l \in KeyLists \cup {CustomKeyLeds_new} :
        /\ from_leds(l).ok
        /\ Enter("set_custom_colors", <<from_leds(l).key_leds>>)

Call_reset_custom_colors == Enter("reset_custom_colors", <<>>)

Call_fetch_device_state == Enter("fetch_device_state", <<>>)

\* the operation's next send_payload call and the `?` after it
Send ==
    /\ result = "running"
    /\ \E transport \in TransportOutcomes :
        LET c == calls[pc]
            r == send_payload(transport, c.unknown, c.command, c.payload)
        IN /\ io' = io \o r.io
           /\ IF r.ok
              THEN /\ pc' = pc + 1
                   /\ result' = IF pc + 1 > Len(calls) THEN "ok" ELSE "running"
              ELSE /\ pc' = pc
                   /\ result' = "err"
    /\ UNCHANGED <<op, args, calls, pktVars, ledVars>>

\* the operation has returned; the caller has its result and the handle is
\* idle again
Return ==
    /\ op # "none"
    /\ result # "running"
    /\ op' = "none"
    /\ args' = <<>>
    /\ calls' = <<>>
    /\ pc' = 1
    /\ io' = <<>>
    /\ result' = "ok"
    /\ UNCHANGED <<pktVars, ledVars>>

Next ==
    \/ Call_set_led_animation
    \/ Call_set_custom_colors
    \/ Call_reset_custom_colors
    \/ Call_fetch_device_state
    \/ Send
    \/ Return

Spec == Init /\ [][Next]_vars

\* ------------------------------------------------- reading the transfers

\* the packets the device received in this run: the control writes that
\* succeeded, in order
Written == SelectSeq(io, LAMBDA e : e.kind = "write" /\ e.ok)

\* the packets handed to the transport in this run, delivered or not
Attempted == SelectSeq(io, LAMBDA e : e.kind = "write")

RECURSIVE ByteSum(_)
ByteSum(s) == IF s = <<>> THEN 0 ELSE Head(s) + ByteSum(Tail(s))

\* the 64 bytes of section 6's wire format for the given codes and payload
WireFormat(unknownCode, commandCode, payload) ==
    <<4, (ByteSum(payload) + commandCode) % 256, unknownCode, commandCode>>
    \o payload \o [i \in 1..(60 - Len(payload)) |-> 0]

\* the transaction is open before the i-th packet of w: a TransactionStart
\* precedes it with no TransactionEnd in between
TransactionOpenAt(w, i) ==
    \E j \in 1..(i - 1) :
        /\ w[j].data[4] = 1
        /\ \A k \in (j + 1)..(i - 1) : w[k].data[4] # 2

\* ------------------------------------------------------------ claims: Spec

\* C1: with a transport that never fails, every packet of a public operation
\* whose command is neither TransactionStart nor TransactionEnd is sent while
\* a transaction is open (after a TransactionStart and before the next
\* TransactionEnd).  The code sends the SetCustomLED chunks and the Unknown5
\* packets after the TransactionEnd of set_led_animation.
C1_EveryPacketInsideTransaction ==
    (\A i \in 1..Len(io) : io[i].ok) =>
        \A i \in 1..Len(Written) :
            Written[i].data[4] \notin {1, 2} => TransactionOpenAt(Written, i)

\* C2: a transport failure ends the operation with the error at once: a
\* failed transfer is the last transfer of the run (nothing is sent after
\* it, in particular no TransactionEnd), the operation has returned the
\* error, and the packets handed to the transport are the operation's calls
\* in order, each at most once (no retry).
C2_FailureAborts ==
    /\ \A i \in 1..Len(io) :
           ~ io[i].ok => (i = Len(io) /\ result = "err")
    /\ result = "err" => (Len(io) > 0 /\ ~ io[Len(io)].ok)
    /\ Len(Attempted) <= Len(calls)
    /\ \A k \in 1..Len(Attempted) :
           Attempted[k].data =
               WireFormat(UnknownByteCode(calls[k].unknown),
                          CommandCode(calls[k].command), calls[k].payload)

\* C2 witness: the interrupt read of the primary animation packet (the 2nd
\* send of set_led_animation) failed; the run holds two writes and no more
C2_Witness ==
    /\ op = "set_led_animation"
    /\ result = "err"
    /\ Len(io) = 4
    /\ io[4].kind = "read"
    /\ ~ io[4].ok
    /\ \A i \in 1..Len(Written) : Written[i].data[4] # 2

\* the arguments of the set_led_animation call the operation in progress makes
AnimationArgs ==
    IF op = "set_led_animation" THEN args
    ELSE <<"Custom", "Full", "Slow", [r |-> 0, g |-> 0, b |-> 0], FALSE>>

\* the four packets of set_led_animation with arguments a, as the claim lists them
FourPackets(a) ==
    <<WireFormat(0, 1, <<>>),
      WireFormat(1, 6,
          <<9, 0, 0, 85, 0, LightingModeCode(a[1]), BrightnessCode(a[2]),
            SpeedCode(a[3]), 0, IF a[5] THEN 1 ELSE 0, a[4].r, a[4].g, a[4].b>>),
      WireFormat(0, 6, <<1, 24, 0, 85, 1>>),
      WireFormat(0, 2, <<>>)>>

\* C10: a successful set_led_animation sends exactly four packets, in this
\* order: TransactionStart (Zero, empty), SetAnimation (One, the 13-byte
\* animation payload), SetAnimation (Zero, 01 18 00 55 01), TransactionEnd
\* (Zero, empty); the trailer is never sent before the primary packet and
\* never omitted.  The same holds of the set_led_animation call that
\* set_custom_colors and reset_custom_colors make first.
C10_AnimationSendsFourPackets ==
    op \in {"set_led_animation", "set_custom_colors", "reset_custom_colors"} =>
        LET w == [i \in 1..Len(Written) |-> Written[i].data]
            four == FourPackets(AnimationArgs)
        IN /\ (op = "set_led_animation" /\ result = "ok") => w = four
           /\ (op # "set_led_animation" /\ pc > 4) => SubSeq(w, 1, 4) = four
           /\ \A i \in 1..Len(w) : i <= 4 => w[i] = four[i]
           /\ \A i \in 1..Len(w) : w[i] = four[3] => (i = 3 /\ w[2] = four[2])

\* C10 witness: set_led_animation with the rainbow flag set has returned Ok
\* after four writes and four reads
C10_Witness ==
    /\ op = "set_led_animation"
    /\ result = "ok"
    /\ args[5] = TRUE
    /\ Len(io) = 8
    /\ Len(Written) = 4

\* --------------------------------------------------- inputs: payloads

\* payloads of every length up to PAYLOAD_SIZE + MaxExtra, in two fills: a
\* ramp that passes through every byte value and all-0xFF (the largest sum)
FillPayload(n, fill) ==
    [i \in 1..n |-> IF fill = 0 THEN (37 * i + 11) % U8Mod ELSE 255]

PayloadFamily ==
    {FillPayload(n, fill) : n \in 0..(PAYLOAD_SIZE + MaxExtra), fill \in {0, 1}}

\* the payloads a Packet under construction is given
Payloads ==
    {<<>>, <<71>>, <<66, 148>>,
     <<9, 0, 0, 85, 0, 5, 4, 4, 0, 0, 244, 255, 100>>,
     FillPayload(PAYLOAD_SIZE, 0), FillPayload(PAYLOAD_SIZE, 1)}
    \cup {FillPayload(n, 1) : n \in (PAYLOAD_SIZE + 1)..(PAYLOAD_SIZE + MaxExtra)}

\* the values one byte of a serialized packet is changed to: the magic,
\* discriminant and command codes among them
ChangedValues == {0, 1, 2, 4, 27, 255}

\* ------------------------------------------------------ actions: Packet

\* no packet is held and no call's result is kept: packets are built per
\* send and dropped after it
PacketIdle ==
    pkt = NoPacket /\ pres = NoCall /\ ser = NoCall /\ sent = NoCall /\ chk = NoCall

Do_calc_checksum ==
    /\ PacketIdle
    /\ \E command \in Commands, data \in PayloadFamily :
        /\ chk' = [call |-> "calc_checksum", command |-> command, data |-> data,
                   value |-> calc_checksum(command, data)]
        /\ UNCHANGED <<pkt, nset, pres, ser, sent, opVars, ledVars>>

Do_send_payload ==
    /\ PacketIdle
    /\ \E transport \in TransportOutcomes, unknown \in UnknownBytes,
       command \in Commands, payload \in PayloadFamily :
        LET r == send_payload(transport, unknown, command, payload)
        IN /\ sent' = [call |-> "send_payload", unknown |-> unknown,
                       command |-> command, payload |-> payload,
                       ok |-> r.ok, io |-> r.io]
           /\ UNCHANGED <<pkt, nset, pres, ser, chk, opVars, ledVars>>

Do_Packet_new ==
    /\ PacketIdle
    /\ \E unknown \in UnknownBytes, command \in Commands :
        /\ pkt' = Packet_new(unknown, command)
        /\ pres' = [call |-> "new", ok |-> TRUE]
        /\ UNCHANGED <<nset, ser, sent, chk, opVars, ledVars>>

Do_set_payload ==
    /\ pkt # NoPacket
    /\ ser = NoCall
    /\ nset < MaxSetPayload
    /\ \E new_data \in Payloads :
        LET r == set_payload(pkt, new_data)
        IN /\ pkt' = r.packet
           /\ pres' = [call |-> "set_payload", ok |-> r.ok,
                       new_data |-> new_data, before |-> pkt]
    /\ nset' = nset + 1
    /\ UNCHANGED <<ser, sent, chk, opVars, ledVars>>

Do_update_checksum ==
    /\ pkt # NoPacket
    /\ ser = NoCall
    /\ pkt' = update_checksum(pkt)
    /\ pres' = [call |-> "update_checksum", ok |-> TRUE]
    /\ UNCHANGED <<nset, ser, sent, chk, opVars, ledVars>>

Do_verify_checksum ==
    /\ pkt # NoPacket
    /\ ser = NoCall
    /\ pres' = [call |-> "verify_checksum", ok |-> verify_checksum(pkt)]
    /\ UNCHANGED <<pkt, nset, ser, sent, chk, opVars, ledVars>>

\* the packet is serialized; `fresh` records that it was built by new, one
\* set_payload and update_checksum, in this order
Do_to_vec ==
    /\ pkt # NoPacket
    /\ ser = NoCall
    /\ ser' = [call |-> "to_vec", bytes |-> Packet_to_vec(pkt), pos |-> -1,
               fresh |-> (nset = 1 /\ pres.call = "update_checksum"),
               read |-> "none"]
    /\ UNCHANGED <<pkt, nset, pres, sent, chk, opVars, ledVars>>

\* one byte (Rust index pos) of the serialized fresh packet is changed to a
\* different value
ChangeByte ==
    /\ ser # NoCall
    /\ ser.call = "to_vec"
    /\ ser.fresh
    /\ ser.read = "none"
    /\ \E pos \in 0..(PACKET_SIZE - 1), v \in ChangedValues :
        /\ v # ser.bytes[pos + 1]
        /\ ser' = [ser EXCEPT !.call = "changed", !.pos = pos,
                              !.bytes = [ser.bytes EXCEPT ![pos + 1] = v]]
    /\ UNCHANGED <<pkt, nset, pres, sent, chk, opVars, ledVars>>

\* the bytes are read back as a Packet and its checksum is verified
ReadAndVerify ==
    /\ ser # NoCall
    /\ ser.read = "none"
    /\ LET r == Packet_read(ser.bytes)
       IN ser' = [ser EXCEPT !.read =
              IF ~ r.ok THEN "read_err"
              ELSE IF verify_checksum(r.packet) THEN "ok" ELSE "checksum_err"]
    /\ UNCHANGED <<pkt, nset, pres, sent, chk, opVars, ledVars>>

\* the packet, its serialized form and the last results go out of scope
DropPacket ==
    /\ ~ PacketIdle
    /\ pkt' = NoPacket
    /\ nset' = 0
    /\ pres' = NoCall
    /\ ser' = NoCall
    /\ sent' = NoCall
    /\ chk' = NoCall
    /\ UNCHANGED <<opVars, ledVars>>

NextPacket ==
    \/ Do_calc_checksum
    \/ Do_send_payload
    \/ Do_Packet_new
    \/ Do_set_payload
    \/ Do_update_checksum
    \/ Do_verify_checksum
    \/ Do_to_vec
    \/ ChangeByte
    \/ ReadAndVerify
    \/ DropPacket

SpecPacket == Init /\ [][NextPacket]_vars

\* ------------------------------------------------------ claims: SpecPacket

\* C3: for every command C and payload P with |P| <= 60, calc_checksum(C, P)
\* is (sum of the bytes of P + code(C)) mod 256, for the empty payload
\* code(C); update_checksum stores that same value for the packet's data.
C3_ChecksumIsSumPlusCode ==
    /\ (chk # NoCall /\ Len(chk.data) <= 60) =>
           /\ chk.value = (ByteSum(chk.data) + CommandCode(chk.command)) % 256
           /\ chk.data = <<>> => chk.value = CommandCode(chk.command)
    /\ (pres # NoCall /\ pres.call = "update_checksum") =>
           pkt.checksum = (ByteSum(pkt.data) + CommandCode(pkt.command)) % 256

\* C3 witness: a checksum of a full 60-byte payload whose byte sum exceeds
\* one byte
C3_Witness ==
    /\ chk # NoCall
    /\ Len(chk.data) = 60
    /\ ByteSum(chk.data) + CommandCode(chk.command) > 255
    /\ chk.command = "Unknown1B"

\* C4: every packet send_payload hands to the transport, for any
\* discriminant u, command C and payload P with |P| <= 60, is exactly 64
\* bytes: byte 0 is 0x04, byte 2 is code(u), byte 3 is code(C), bytes
\* 4..4+|P|-1 are P, the rest up to byte 63 are zero, and byte 1 is (sum of
\* bytes 4..63 + byte 3) mod 256.
C4_SentPacketLayout ==
    (sent # NoCall /\ Len(sent.payload) <= 60) =>
        /\ Len(sent.io) >= 1
        /\ sent.io[1].kind = "write"
        /\ \A e \in 1..Len(sent.io) :
               sent.io[e].kind = "write" =>
                   LET b == sent.io[e].data
                       n == Len(sent.payload)
                   IN /\ Len(b) = 64
                      /\ b[1] = 4
                      /\ b[3] = UnknownByteCode(sent.unknown)
                      /\ b[4] = CommandCode(sent.command)
                      /\ \A i \in 1..n : b[4 + i] = sent.payload[i]
                      /\ \A i \in (n + 1)..60 : b[4 + i] = 0
                      /\ b[2] = (ByteSum(SubSeq(b, 5, 64)) + b[4]) % 256

\* C4 witness: a full 60-byte payload was sent with discriminant Three and
\* both transfers succeeded
C4_Witness ==
    /\ sent # NoCall
    /\ sent.ok
    /\ Len(sent.payload) = 60
    /\ sent.unknown = "Three"
    /\ Len(sent.io) = 2

\* C5: a payload longer than 60 bytes fails with the payload-too-large
\* error: set_payload leaves the packet unchanged, prepare_packet returns
\* the error, and send_payload performs no transport write or read.
C5_OversizePayloadRejected ==
    /\ (pres # NoCall /\ pres.call = "set_payload" /\ Len(pres.new_data) > 60) =>
           (~ pres.ok /\ pkt = pres.before)
    /\ (sent # NoCall /\ Len(sent.payload) > 60) =>
           /\ ~ sent.ok
           /\ sent.io = <<>>
           /\ ~ prepare_packet(sent.unknown, sent.command, sent.payload).ok

\* C5 witness: send_payload was called with a 61-byte payload
C5_Witness ==
    /\ sent # NoCall
    /\ Len(sent.payload) = 61
    /\ ~ sent.ok

\* C8 as stated: a packet built by new, set_payload(P) and update_checksum
\* verifies, and after a change of any single one of its 64 serialized bytes
\* to a different value verification fails.  The checksum does not cover
\* byte 2, the discriminant.
C8_AnyChangedByteDetected ==
    /\ (pres # NoCall /\ pres.call = "verify_checksum"
            /\ calc_checksum(pkt.command, pkt.data) = pkt.checksum) => pres.ok
    /\ (ser # NoCall /\ ser.fresh /\ ser.call = "to_vec" /\ ser.read # "none") =>
           ser.read = "ok"
    /\ (ser # NoCall /\ ser.call = "changed" /\ ser.read # "none") =>
           ser.read # "ok"

\* C8 amended: a packet built by new, set_payload(P) and update_checksum
\* verifies (directly and after a round trip through its 64 bytes); after a
\* change of any single byte other than byte 2 to a different value, reading
\* the packet back or verifying its checksum fails; a change of byte 2 to
\* another discriminant in 0..3 is not detected.
C8_ChangedByteDetectedExceptDiscriminant ==
    /\ (pres # NoCall /\ pres.call = "verify_checksum"
            /\ pkt.checksum = (ByteSum(pkt.data) + CommandCode(pkt.command)) % 256)
           => pres.ok
    /\ (ser # NoCall /\ ser.fresh /\ ser.call = "to_vec" /\ ser.read # "none") =>
           ser.read = "ok"
    /\ (ser # NoCall /\ ser.call = "changed" /\ ser.read # "none") =>
           /\ ser.pos # 2 => ser.read \in {"read_err", "checksum_err"}
           /\ ser.pos = 2 =>
                  ser.read = (IF ser.bytes[3] \in 0..3 THEN "ok" ELSE "read_err")

\* C8 witness: a payload byte (index 4 or above) of a verified packet was
\* changed and the checksum verification of the result failed
C8_Witness ==
    /\ ser # NoCall
    /\ ser.call = "changed"
    /\ ser.pos >= 4
    /\ ser.read = "checksum_err"
    /\ nset = 1
    /\ verify_checksum(pkt)

\* ------------------------------------------------ inputs: CustomKeyLeds

\* the lengths of the key lists handed to from_leds: empty, one key, the
\* keys of the first chunk, one short of full, full, and too long
ListLengths ==
    {0, 1, CHUNK_SIZE \div 3, TOTAL_KEYS - 1}
    \cup (TOTAL_KEYS..(TOTAL_KEYS + MaxExtra))

\* the key indices handed to set_led: first keys, the keys that straddle
\* the chunk boundaries at bytes 56 and 280, the key at byte 255, the last
\* key, and the first indices past the end
KeyIndices ==
    {0, 1, CHUNK_SIZE \div 3, 255 \div 3, (5 * CHUNK_SIZE) \div 3,
     TOTAL_KEYS - 1, TOTAL_KEYS, TOTAL_KEYS + MaxExtra}

KeyColors == {OwnRGB8_default, OwnRGB8_new(244, 255, 100)}

\* ----------------------------------------------- actions: CustomKeyLeds

LedsIdle == leds = NoLeds /\ lres = NoCall /\ chunks = NoCall

Do_CustomKeyLeds_new ==
    /\ LedsIdle
    /\ leds' = [key_leds |-> CustomKeyLeds_new]
    /\ lres' = [call |-> "new", ok |-> TRUE]
    /\ UNCHANGED <<nled, chunks, opVars, pktVars>>

Do_from_leds ==
    /\ LedsIdle
    /\ \E n \in ListLengths, k \in 1..NumPatterns :
        LET key_leds == KeyList(n, k)
            r == from_leds(key_leds)
        IN /\ leds' = IF r.ok THEN [key_leds |-> r.key_leds] ELSE NoLeds
           /\ lres' = [call |-> "from_leds", ok |-> r.ok, key_leds |-> key_leds]
    /\ UNCHANGED <<nled, chunks, opVars, pktVars>>

Do_set_led ==
    /\ leds # NoLeds
    /\ nled < MaxSetLed
    /\ \E key_index \in KeyIndices, key \in KeyColors :
        LET r == set_led(leds.key_leds, key_index, key)
        IN /\ leds' = [key_leds |-> r.key_leds]
           /\ lres' = [call |-> "set_led", ok |-> r.ok, key_index |-> key_index,
                       key |-> key, before |-> leds.key_leds]
    /\ nled' = nled + 1
    /\ UNCHANGED <<chunks, opVars, pktVars>>

\* get_payloads takes the state by value: it is gone after the call
Do_get_payloads ==
    /\ leds # NoLeds
    /\ chunks' = [call |-> "get_payloads", key_leds |-> leds.key_leds,
                  payloads |-> get_payloads(leds.key_leds)]
    /\ leds' = NoLeds
    /\ UNCHANGED <<nled, lres, opVars, pktVars>>

DropLeds ==
    /\ ~ LedsIdle
    /\ leds' = NoLeds
    /\ nled' = 0
    /\ lres' = NoCall
    /\ chunks' = NoCall
    /\ UNCHANGED <<opVars, pktVars>>

NextLeds ==
    \/ Do_CustomKeyLeds_new
    \/ Do_from_leds
    \/ Do_set_led
    \/ Do_get_payloads
    \/ DropLeds

SpecLeds == Init /\ [][NextLeds]_vars

\* -------------------------------------------------------- claims: SpecLeds

\* the byte at (0-based) position j of the flat R,G,B stream of key_leds
FlatByte(key_leds, j) ==
    LET c == key_leds[(j \div 3) + 1]
    IN CASE j % 3 = 0 -> c.r
         [] j % 3 = 1 -> c.g
         [] j % 3 = 2 -> c.b

\* C6: the CustomKeyLeds state always holds exactly 126 colors: after new(),
\* after a successful from_leds(list) for any list length 0..126 (the
\* supplied colors first, the default color (0,0,0) at all remaining
\* positions), and after any sequence of set_led calls.  The code keeps a
\* shorter list as it is.
C6_AlwaysTotalKeys ==
    /\ leds # NoLeds => Len(leds.key_leds) = 126
    /\ (leds # NoLeds /\ lres.call = "from_leds") =>
           \A i \in 1..Len(leds.key_leds) :
               leds.key_leds[i] =
                   IF i <= Len(lres.key_leds) THEN lres.key_leds[i]
                   ELSE [r |-> 0, g |-> 0, b |-> 0]
    /\ (lres # NoCall /\ lres.call = "from_leds") =>
           (lres.ok <=> Len(lres.key_leds) <= 126)

\* C7: for a state of 126 keys get_payloads returns exactly 7 chunks in
\* index order; chunk i carries bytes i*56 .. min(i*56+56, 378)-1 of the flat
\* R,G,B stream (six chunks of 56 and one of 42, 378 in all), its data_offset
\* is (i*56) mod 256, its secondary_keys is 1 if i*56 > 255 and 0 otherwise,
\* its padding is 0 and its data_len byte is the number of data bytes.
C7_ChunksOfFullState ==
    (chunks # NoCall /\ Len(chunks.key_leds) = 126) =>
        /\ Len(chunks.payloads) = 7
        /\ \A i \in 0..6 :
               LET p == chunks.payloads[i + 1]
                   first == i * 56
                   last == (IF first + 56 < 378 THEN first + 56 ELSE 378) - 1
               IN /\ p.key_leds_data =
                         [j \in 1..(last - first + 1) |->
                             FlatByte(chunks.key_leds, first + j - 1)]
                  /\ Len(p.key_leds_data) = (IF i < 6 THEN 56 ELSE 42)
                  /\ p.data_offset = first % 256
                  /\ p.secondary_keys = (IF first > 255 THEN 1 ELSE 0)
                  /\ p.padding = 0
                  /\ LedCustomPayload_to_vec(p)[1] = Len(p.key_leds_data)
                  /\ SubSeq(LedCustomPayload_to_vec(p), 2, 4) =
                         <<first % 256, IF first > 255 THEN 1 ELSE 0, 0>>
        /\ ByteSum([i \in 1..7 |-> Len(chunks.payloads[i].key_leds_data)]) = 378

\* C7 witness: get_payloads ran on a 126-key state built by from_leds and
\* changed by set_led; its sixth chunk is the first in the second bank
C7_Witness ==
    /\ chunks # NoCall
    /\ Len(chunks.key_leds) = 126
    /\ nled >= 1
    /\ chunks.key_leds[1] # [r |-> 0, g |-> 0, b |-> 0]
    /\ chunks.key_leds[126] = [r |-> 244, g |-> 255, b |-> 100]
    /\ Len(chunks.payloads) = 7
    /\ chunks.payloads[6].secondary_keys = 1
    /\ chunks.payloads[6].data_offset = 24

\* C9: on a state obtained from new() or a successful from_leds, set_led(i, c)
\* succeeds for every index i in 0..125 and changes only the color at
\* position i to c; for every i >= 126 it fails and leaves the state
\* unchanged.  On a state from_leds built from a shorter list the code
\* rejects the indices from the list's length on.
C9_SetLedBounds ==
    (lres # NoCall /\ lres.call = "set_led") =>
        /\ lres.key_index <= 125 =>
               /\ lres.ok
               /\ Len(leds.key_leds) = Len(lres.before)
               /\ \A i \in 1..Len(leds.key_leds) :
                      leds.key_leds[i] = IF i = lres.key_index + 1 THEN lres.key
                                         ELSE lres.before[i]
        /\ lres.key_index >= 126 => (~ lres.ok /\ leds.key_leds = lres.before)

\* ------------------------------------------------- claims: set_payload

\* C11: after a successful set_payload(bytes) with |bytes| <= 60 on a packet
\* in any state (also one whose payload earlier set_payload calls have set),
\* the 60-byte payload region is bytes followed by 60-|bytes| zero bytes.
\* The code copies bytes over the start of the region and leaves the rest as
\* it was.
C11_PayloadZeroPadded ==
    (pres # NoCall /\ pres.call = "set_payload" /\ pres.ok) =>
        /\ Len(pkt.data) = 60
        /\ \A i \in 1..60 :
               pkt.data[i] = IF i <= Len(pres.new_data) THEN pres.new_data[i]
                             ELSE 0

\* ----------------------------------------- claims: LedAnimationPayload

\* the payload of the primary SetAnimation call of the operation in progress
AnimationPayload == calls[2].payload

\* C12: for every lighting mode, brightness, speed, color and rainbow flag,
\* LedAnimationPayload::new(...).to_vec() is exactly the 13 bytes
\* 09 00 00 55 00 | code(mode) | code(brightness) | code(speed) | 00 |
\* rainbow (01 if true, 00 if false) | r | g | b; two encodings that differ
\* only in the rainbow flag differ only at byte index 9.
C12_AnimationPayloadBytes ==
    op = "set_led_animation" =>
        LET toggled == LedAnimationPayload_to_vec(
                           LedAnimationPayload_new(args[1], args[2], args[3],
                                                   args[4], ~ args[5]))
        IN /\ AnimationPayload =
                  <<9, 0, 0, 85, 0, LightingModeCode(args[1]),
                    BrightnessCode(args[2]), SpeedCode(args[3]), 0,
                    IF args[5] THEN 1 ELSE 0, args[4].r, args[4].g, args[4].b>>
           /\ Len(toggled) = 13
           /\ \A i \in 1..13 : (toggled[i] # AnimationPayload[i]) <=> (i = 10)

\* C12 witness: set_led_animation(Vortex, Full, VerySlow, (244,255,100),
\* false) has sent its primary packet, whose payload is the one of the
\* serialize_led_animation_payload test
C12_Witness ==
    /\ op = "set_led_animation"
    /\ args = <<"Vortex", "Full", "VerySlow", [r |-> 244, g |-> 255, b |-> 100], FALSE>>
    /\ AnimationPayload = <<9, 0, 0, 85, 0, 5, 4, 4, 0, 0, 244, 255, 100>>
    /\ Len(Written) >= 2
    /\ SubSeq(Written[2].data, 5, 17) = AnimationPayload

====
